---- MODULE Spec2Model ----
(***************************************************************************)
(* FilamentController front-end scripts.                                   *)
(*                                                                         *)
(* Two Vue applications bind a page to the device-control HTTP API:        *)
(*   - the status/control panel (src/unnamed/part_000): a 500 ms interval  *)
(*     polls GET /status (450 ms timeout) and two buttons issue            *)
(*     GET /filament-on and GET /filament-off;                             *)
(*   - the setup panel (src/static/scripts/setup.js): one GET /status on   *)
(*     load (1000 ms timeout), a 500 ms interval polling GET /status       *)
(*     (450 ms timeout) and a POST /setup.                                 *)
(*                                                                         *)
(* A browser tab holds one of the two pages.  Timers are ideal: an         *)
(* interval fires on the multiples of its period and a request with a     *)
(* timeout is settled no later than its deadline.  The clock counts ticks  *)
(* of 250 ms; tick c stands for the instants from 250c up to 250(c+1) ms,  *)
(* which keeps the order of all timer events of the scripts (polls sent at *)
(* 500k, their deadlines at 500k + 450, the on-load deadline at 1000)      *)
(* while everything else interleaves freely.  Every promise callback runs  *)
(* to completion as one step.                                              *)
(* JavaScript strings that the scripts convert (toPrecision, parseFloat)   *)
(* are sequences of one-character strings; opaque texts are strings.       *)
(***************************************************************************)
EXTENDS Integers, Sequences, FiniteSets, TLC

\* ------------------------------------------------------------------ bounds

\* Ticks of the clock after which the model stops the time of the status
\* panel (the interval runs at ticks 2 and 4) and of the setup panel (the
\* interval runs at tick 2, before the on-load request's deadline).
MaxStatusTime == 4
MaxSetupTime == 2
\* Clicks on the filament buttons (status panel).
MaxClicks == 2
\* Calls of submitNewSettings (setup panel).
MaxSubmits == 1
\* Largest active_users the server reports.
MaxUsers == 1
\* Largest max_dac_value the server stores.
MaxDacValue == 1

\* --------------------------------------------------------------- constants

\* setInterval(..., 500) of the status panel.
StatusPollIntervalMs == 500
\* axios.get("/status", { timeout: 450 }) of the status panel.
StatusPollTimeoutMs == 450
\* setInterval(..., 500) of the setup panel.
SetupPollIntervalMs == 500
\* axios.get("/status", { timeout: 450 }) of the setup panel's interval.
SetupPollTimeoutMs == 450
\* axios.get("/status", { timeout: 1000 }) of the setup panel's mounted hook.
LoadTimeoutMs == 1000
\* The first instant of a tick of the clock, in milliseconds.
Ms(tick) == 250 * tick

\* The text every catch handler writes when error.response is undefined.
GenericFailure == "Failed to communicate with server."
\* The text the setup panel's interval writes to warning_message.
ChangedWarning == "Warning: Someone else on the system changed the max virtual knob value setting while you were on this page."

\* ------------------------------------------------------- server vocabulary

\* Bodies of the server's error responses (an error response may be empty).
ErrorBodies == {"", "Internal Server Error"}
\* Bodies of successful /filament-on and /filament-off responses.
FilamentBodies == {"Filament turned on.", "Filament turned off."}
\* filament_status_message of a /status response.
StatusMessages == {"Filament is on.", "Filament is off."}
\* The settings max_dac_value can take, and the server's dac_bits: the
\* narrowest DAC that holds them.
DacValues == 0 .. MaxDacValue
DacBits ==
    CHOOSE b \in 1 .. 16 :
        /\ 2 ^ b - 1 >= MaxDacValue
        /\ \A c \in 1 .. b - 1 : 2 ^ c - 1 < MaxDacValue
\* Texts typed into the knob input by the user.
TypedValues == {<<"2", ".", "5", "0">>}

\* ------------------------------------------------------------- conversions

Digits == <<"0", "1", "2", "3", "4", "5", "6", "7", "8", "9">>
DigitChar(d) == Digits[d + 1]
IsDigit(c) == \E i \in 1 .. 10 : Digits[i] = c

\* Number.prototype.toPrecision(2) of the non-negative rational num/den
\* (below 99.5): two significant digits, fixed notation.
RECURSIVE SmallPrecision(_, _, _)
SmallPrecision(num, den, zeros) ==
    IF 10 * num >= den
    THEN LET h == (200 * num + den) \div (2 * den)
         IN  IF h >= 100
             THEN IF zeros = <<>>
                  THEN <<"1", ".", "0">>
                  ELSE <<"0", ".">> \o Tail(zeros) \o <<"1", "0">>
             ELSE <<"0", ".">> \o zeros \o <<DigitChar(h \div 10), DigitChar(h % 10)>>
    ELSE SmallPrecision(10 * num, den, zeros \o <<"0">>)

ToPrecision2(num, den) ==
    IF num = 0 THEN <<"0", ".", "0">>
    ELSE IF num >= den
    THEN LET t == (20 * num + den) \div (2 * den)
             r == (2 * num + den) \div (2 * den)
         IN  IF t >= 100
             THEN <<DigitChar(r \div 10), DigitChar(r % 10)>>
             ELSE <<DigitChar(t \div 10), ".", DigitChar(t % 10)>>
    ELSE SmallPrecision(num, den, <<>>)

\* The expression of setup.js line 36:
\* ((max_dac_value / (Math.pow(2, dac_bits) - 1)) * 10.0).toPrecision(2)
KnobText(max_dac_value, dac_bits) ==
    ToPrecision2(10 * max_dac_value, 2 ^ dac_bits - 1)

RECURSIVE DigitPrefix(_)
DigitPrefix(s) ==
    IF s # <<>> /\ IsDigit(Head(s)) THEN <<Head(s)>> \o DigitPrefix(Tail(s)) ELSE <<>>

RECURSIVE StripLeadingZeros(_)
StripLeadingZeros(s) ==
    IF Len(s) > 1 /\ Head(s) = "0" THEN StripLeadingZeros(Tail(s)) ELSE s

RECURSIVE StripTrailingZeros(_)
StripTrailingZeros(s) ==
    IF s # <<>> /\ s[Len(s)] = "0"
    THEN StripTrailingZeros(SubSeq(s, 1, Len(s) - 1))
    ELSE s

\* String(parseFloat(s)), the text FormData.append stores (setup.js line 14):
\* the longest prefix digits[.digits] of s as a number, printed the way
\* JavaScript prints a number, or "NaN" when s starts with no number.
FormValue(s) ==
    LET ip   == DigitPrefix(s)
        rest == SubSeq(s, Len(ip) + 1, Len(s))
        fp   == IF rest # <<>> /\ Head(rest) = "."
                THEN DigitPrefix(Tail(rest)) ELSE <<>>
        int  == StripLeadingZeros(IF ip = <<>> THEN <<"0">> ELSE ip)
        frac == StripTrailingZeros(fp)
    IN  IF ip = <<>> /\ fp = <<>> THEN <<"N", "a", "N">>
        ELSE IF frac = <<>> THEN int
        ELSE int \o <<".">> \o frac

\* ------------------------------------------------------------------- state

VARIABLES
    page,                     \* the mounted application: "status" or "setup"
    href,                     \* window.location.href
    clock,                    \* ticks since the application was mounted
    fired,                    \* runs of the setInterval callback so far
    nextSeq,                  \* requests issued so far (issue order)
    inflight,                 \* requests whose promise is not settled yet
    computer_control,         \* status panel data
    active_users,
    filament_status_message,
    max_virtual_knob_value,   \* setup panel data
    current_max_dac_value,
    error_message,
    warning_message,
    srv_max_dac_value,        \* the server's max_dac_value setting
    last,                     \* history: the promise callback that ran last
    lastPoll,                 \* history: computer_control and active_users of
                              \* the last successful poll of the status panel
    posted,                   \* history: POST /setup requests issued so far
    counts                    \* history: clicks and submits of the user so far,
                              \* and whether another user changed the setting

statusData == <<computer_control, active_users, filament_status_message>>
setupData  == <<max_virtual_knob_value, current_max_dac_value, error_message,
                warning_message>>
history    == <<last, lastPoll, posted>>
vars == <<page, href, clock, fired, nextSeq, inflight, statusData, setupData,
          srv_max_dac_value, history, counts>>

\* response.data / error.response.data: a text body or the /status object.
Data(text, cc, fsm, au, mdv, bits) ==
    [text |-> text, computer_control |-> cc, filament_status_message |-> fsm,
     active_users |-> au, max_dac_value |-> mdv, dac_bits |-> bits]
TextData(text) == Data(text, TRUE, "", 0, 0, 0)
NoData == TextData("")

\* What the server has done with a request of the setup panel so far: a
\* /status request is answered from the setting of that moment, an accepted
\* POST /setup has changed the setting.
NoReply == [st |-> "none", data |-> NoData]
OkReply(data) == [st |-> "ok", data |-> data]

\* The /status objects the server may send to the status panel.
StatusResponses ==
    {Data("", cc, msg, au, 0, DacBits) :
        cc \in BOOLEAN, msg \in StatusMessages, au \in 0 .. MaxUsers}
\* The bodies the server may send for /filament-on and /filament-off.
FilamentResponses == {TextData(body) : body \in FilamentBodies}

\* The error object a catch handler receives: error.response is undefined
\* (network error, timeout, also of a request the server has answered) or
\* holds an error response of the server.
NoResponse == [response |-> FALSE, data |-> NoData]
ErrorResponse(body) == [response |-> TRUE, data |-> TextData(body)]
ErrorsOf(r) ==
    {NoResponse} \cup
    (IF r.reply.st = "none" THEN {ErrorResponse(body) : body \in ErrorBodies}
     ELSE {})

\* Faulty variant of Timeout: the poll of the status panel is sent without
\* a timeout option, like the filament requests.
Timeout_PollUnbounded(kind) ==
    CASE kind = "poll" -> SetupPollTimeoutMs
      [] kind = "load" -> LoadTimeoutMs
      [] OTHER         -> 0

\* The timeout option of each axios call in ms; 0 when none is given.
Timeout(kind) ==
    CASE kind = "status" -> StatusPollTimeoutMs
      [] kind = "poll"   -> SetupPollTimeoutMs
      [] kind = "load"   -> LoadTimeoutMs
      [] OTHER           -> 0

\* A request as axios sends it.  Only a request with a timeout option keeps
\* the time it was sent at.
Request(kind, form) ==
    [seq |-> nextSeq + 1, kind |-> kind,
     sent |-> IF Timeout(kind) > 0 THEN clock ELSE 0, form |-> form,
     reply |-> NoReply]

\* The period of the page's setInterval in ms.
Interval ==
    IF page = "status" THEN StatusPollIntervalMs ELSE SetupPollIntervalMs

\* Runs of the interval callback that are due by the current tick.
Due == Ms(clock) \div Interval

\* The document is alive: the setup page is gone once it navigated away.
Alive(p) == page = p /\ (p = "setup" => href = "/setup")

\* A promise is settled and one of its callbacks runs: the request leaves
\* the network, and the history records which callback ran on what.
Settled(r, outcome, response, data) ==
    /\ inflight' = inflight \ {r}
    /\ last' = [seq |-> r.seq, kind |-> r.kind, outcome |-> outcome,
                response |-> response, data |-> data]
    /\ UNCHANGED <<page, clock, fired, nextSeq, posted, srv_max_dac_value,
                   counts>>

\* axios sends a request.
Issued(r) ==
    /\ inflight' = inflight \cup {r}
    /\ nextSeq' = r.seq
    /\ posted' = IF r.kind = "post" THEN posted + 1 ELSE posted

NoCounts == [clicks |-> 0, submits |-> 0, external |-> FALSE]

\* data() of both applications, and mounted(): the status panel only sets
\* its interval, the setup panel also sends the on-load GET /status.
Init ==
    /\ page \in {"status", "setup"}
    /\ href = (IF page = "setup" THEN "/setup" ELSE "/")
    /\ clock = 0
    /\ fired = 0
    /\ nextSeq = (IF page = "setup" THEN 1 ELSE 0)
    /\ inflight = (IF page = "setup"
                   THEN {[seq |-> 1, kind |-> "load", sent |-> 0, form |-> <<>>,
                          reply |-> NoReply]}
                   ELSE {})
    /\ computer_control = TRUE
    /\ active_users = 0
    /\ filament_status_message = ""
    /\ max_virtual_knob_value = <<"0">>
    /\ current_max_dac_value = 0
    /\ error_message = ""
    /\ warning_message = ""
    /\ srv_max_dac_value \in (IF page = "setup" THEN DacValues ELSE {0})
    /\ last = [seq |-> 0, kind |-> "none", outcome |-> "none",
               response |-> FALSE, data |-> NoData]
    /\ lastPoll = <<>>
    /\ posted = 0
    /\ counts = NoCounts

\* ------------------------------------------------------------------- time

\* A request with a timeout option is settled by its deadline: the deadline
\* falls before the next tick.
Expired(r) ==
    Timeout(r.kind) > 0 /\ Ms(clock + 1) > Ms(r.sent) + Timeout(r.kind)

\* Time passes: no timeout is overdue and the interval has run when due.
Tick ==
    /\ clock < (IF page = "status" THEN MaxStatusTime ELSE MaxSetupTime)
    /\ fired = Due
    /\ \A r \in inflight : ~Expired(r)
    /\ clock' = clock + 1
    /\ UNCHANGED <<page, href, fired, nextSeq, inflight, statusData, setupData,
                   srv_max_dac_value, history, counts>>

\* ----------------------------------------------------------------- server

\* GET /status answered for the setup panel with the current setting.
AnswerSetupStatus(r) ==
    /\ Alive("setup")
    /\ r.kind \in {"load", "poll"} /\ r.reply.st = "none"
    /\ inflight' = (inflight \ {r}) \cup
         {[r EXCEPT !.reply =
             OkReply(Data("", TRUE, "", 0, srv_max_dac_value, DacBits))]}
    /\ UNCHANGED <<page, href, clock, fired, nextSeq, statusData, setupData,
                   srv_max_dac_value, history, counts>>

\* POST /setup accepted: the server stores the setting it derives from the
\* submitted number.
AnswerPost(r) ==
    /\ Alive("setup")
    /\ r.kind = "post" /\ r.reply.st = "none"
    /\ srv_max_dac_value' \in DacValues
    /\ inflight' = (inflight \ {r}) \cup {[r EXCEPT !.reply = OkReply(NoData)]}
    /\ UNCHANGED <<page, href, clock, fired, nextSeq, statusData, setupData,
                   history, counts>>

\* Another user of the system changes the setting while the setup page is open.
ExternalChange ==
    /\ Alive("setup")
    /\ \E v \in DacValues \ {srv_max_dac_value} : srv_max_dac_value' = v
    /\ counts' = [counts EXCEPT !.external = TRUE]
    /\ UNCHANGED <<page, href, clock, fired, nextSeq, inflight, statusData,
                   setupData, history>>

\* ----------------------------------------------------------- status panel

\* The interval callback of mounted (part_000 lines 41-55): one GET /status.
StatusPoll ==
    /\ Alive("status")
    /\ fired < Due
    /\ fired' = fired + 1
    /\ Issued(Request("status", <<>>))
    /\ UNCHANGED <<page, href, clock, statusData, setupData, srv_max_dac_value,
                   last, lastPoll, counts>>

\* Faulty variant of StatusPollThen: active_users is not copied.
StatusPollThen_SkipsUsers(r, response) ==
    /\ Alive("status") /\ r.kind = "status"
    /\ computer_control' = response.computer_control
    /\ filament_status_message' = response.filament_status_message
    /\ lastPoll' = <<response.computer_control, response.active_users>>
    /\ Settled(r, "then", TRUE, response)
    /\ UNCHANGED <<href, active_users, setupData>>

\* then of the poll (lines 42-46).
StatusPollThen(r, response) ==
    /\ Alive("status") /\ r.kind = "status"
    /\ computer_control' = response.computer_control
    /\ filament_status_message' = response.filament_status_message
    /\ active_users' = response.active_users
    /\ lastPoll' = <<response.computer_control, response.active_users>>
    /\ Settled(r, "then", TRUE, response)
    /\ UNCHANGED <<href, setupData>>

\* Faulty variant of StatusPollCatch: a failure without a response is
\* dropped and the message of an older request stays displayed.
StatusPollCatch_Silent(r, error) ==
    /\ Alive("status") /\ r.kind = "status"
    /\ filament_status_message' =
         (IF ~error.response THEN filament_status_message ELSE error.data.text)
    /\ Settled(r, "catch", error.response, error.data)
    /\ UNCHANGED <<href, computer_control, active_users, setupData, lastPoll>>

\* catch of the poll (lines 47-54).
StatusPollCatch(r, error) ==
    /\ Alive("status") /\ r.kind = "status"
    /\ filament_status_message' =
         (IF ~error.response THEN GenericFailure ELSE error.data.text)
    /\ Settled(r, "catch", error.response, error.data)
    /\ UNCHANGED <<href, computer_control, active_users, setupData, lastPoll>>

\* filamentOn (lines 10-12): GET /filament-on.
FilamentOn ==
    /\ Alive("status")
    /\ counts.clicks < MaxClicks
    /\ counts' = [counts EXCEPT !.clicks = @ + 1]
    /\ Issued(Request("filament-on", <<>>))
    /\ UNCHANGED <<page, href, clock, fired, statusData, setupData,
                   srv_max_dac_value, last, lastPoll>>

\* then of filamentOn (lines 12-14).
FilamentOnThen(r, response) ==
    /\ Alive("status") /\ r.kind = "filament-on"
    /\ filament_status_message' = response.text
    /\ Settled(r, "then", TRUE, response)
    /\ UNCHANGED <<href, computer_control, active_users, setupData, lastPoll>>

\* catch of filamentOn (lines 15-22).
FilamentOnCatch(r, error) ==
    /\ Alive("status") /\ r.kind = "filament-on"
    /\ filament_status_message' =
         (IF ~error.response THEN GenericFailure ELSE error.data.text)
    /\ Settled(r, "catch", error.response, error.data)
    /\ UNCHANGED <<href, computer_control, active_users, setupData, lastPoll>>

\* filamentOff (lines 24-26): GET /filament-off.
FilamentOff ==
    /\ Alive("status")
    /\ counts.clicks < MaxClicks
    /\ counts' = [counts EXCEPT !.clicks = @ + 1]
    /\ Issued(Request("filament-off", <<>>))
    /\ UNCHANGED <<page, href, clock, fired, statusData, setupData,
                   srv_max_dac_value, last, lastPoll>>

\* Faulty variant of FilamentOffThen: the handler also resets
\* computer_control.
FilamentOffThen_ResetsControl(r, response) ==
    /\ Alive("status") /\ r.kind = "filament-off"
    /\ filament_status_message' = response.text
    /\ computer_control' = TRUE
    /\ Settled(r, "then", TRUE, response)
    /\ UNCHANGED <<href, active_users, setupData, lastPoll>>

\* then of filamentOff (lines 26-28).
FilamentOffThen(r, response) ==
    /\ Alive("status") /\ r.kind = "filament-off"
    /\ filament_status_message' = response.text
    /\ Settled(r, "then", TRUE, response)
    /\ UNCHANGED <<href, computer_control, active_users, setupData, lastPoll>>

\* catch of filamentOff (lines 29-36).
FilamentOffCatch(r, error) ==
    /\ Alive("status") /\ r.kind = "filament-off"
    /\ filament_status_message' =
         (IF ~error.response THEN GenericFailure ELSE error.data.text)
    /\ Settled(r, "catch", error.response, error.data)
    /\ UNCHANGED <<href, computer_control, active_users, setupData, lastPoll>>

\* ------------------------------------------------------------ setup panel

\* then of the on-load GET /status (setup.js lines 35-38).
LoadThen(r) ==
    /\ Alive("setup") /\ r.kind = "load" /\ r.reply.st = "ok"
    /\ max_virtual_knob_value' =
         KnobText(r.reply.data.max_dac_value, r.reply.data.dac_bits)
    /\ current_max_dac_value' = r.reply.data.max_dac_value
    /\ Settled(r, "then", TRUE, r.reply.data)
    /\ UNCHANGED <<href, statusData, error_message, warning_message, lastPoll>>

\* catch of the on-load GET /status (lines 39-46).
LoadCatch(r, error) ==
    /\ Alive("setup") /\ r.kind = "load"
    /\ error_message' =
         (IF ~error.response THEN GenericFailure ELSE error.data.text)
    /\ Settled(r, "catch", error.response, error.data)
    /\ UNCHANGED <<href, statusData, max_virtual_knob_value,
                   current_max_dac_value, warning_message, lastPoll>>

\* The interval callback of mounted (lines 47-61): one GET /status.
SetupPoll ==
    /\ Alive("setup")
    /\ fired < Due
    /\ fired' = fired + 1
    /\ Issued(Request("poll", <<>>))
    /\ UNCHANGED <<page, href, clock, statusData, setupData, srv_max_dac_value,
                   last, lastPoll, counts>>

\* Faulty variant of SetupPollThen: the comparison is skipped while
\* current_max_dac_value is falsy (0).
SetupPollThen_Falsy(r) ==
    /\ Alive("setup") /\ r.kind = "poll" /\ r.reply.st = "ok"
    /\ warning_message' =
         (IF /\ current_max_dac_value # 0
             /\ current_max_dac_value # r.reply.data.max_dac_value
          THEN ChangedWarning ELSE warning_message)
    /\ Settled(r, "then", TRUE, r.reply.data)
    /\ UNCHANGED <<href, statusData, max_virtual_knob_value,
                   current_max_dac_value, error_message, lastPoll>>

\* Faulty variant of SetupPollThen: the poll refreshes the form from the
\* response after comparing.
SetupPollThen_Refreshes(r) ==
    /\ Alive("setup") /\ r.kind = "poll" /\ r.reply.st = "ok"
    /\ warning_message' =
         (IF current_max_dac_value # r.reply.data.max_dac_value
          THEN ChangedWarning ELSE warning_message)
    /\ max_virtual_knob_value' =
         KnobText(r.reply.data.max_dac_value, r.reply.data.dac_bits)
    /\ current_max_dac_value' = r.reply.data.max_dac_value
    /\ Settled(r, "then", TRUE, r.reply.data)
    /\ UNCHANGED <<href, statusData, error_message, lastPoll>>

\* Faulty variant of SetupPollThen: a successful poll clears the error.
SetupPollThen_ClearsError(r) ==
    /\ Alive("setup") /\ r.kind = "poll" /\ r.reply.st = "ok"
    /\ warning_message' =
         (IF current_max_dac_value # r.reply.data.max_dac_value
          THEN ChangedWarning ELSE warning_message)
    /\ error_message' = ""
    /\ Settled(r, "then", TRUE, r.reply.data)
    /\ UNCHANGED <<href, statusData, max_virtual_knob_value,
                   current_max_dac_value, lastPoll>>

\* then of the poll (lines 48-52).
SetupPollThen(r) ==
    /\ Alive("setup") /\ r.kind = "poll" /\ r.reply.st = "ok"
    /\ warning_message' =
         (IF current_max_dac_value # r.reply.data.max_dac_value
          THEN ChangedWarning ELSE warning_message)
    /\ Settled(r, "then", TRUE, r.reply.data)
    /\ UNCHANGED <<href, statusData, max_virtual_knob_value,
                   current_max_dac_value, error_message, lastPoll>>

\* Faulty variant of SetupPollCatch: error.response is read without the
\* undefined test, so a failure without a response writes nothing.
SetupPollCatch_Unchecked(r, error) ==
    /\ Alive("setup") /\ r.kind = "poll"
    /\ error_message' =
         (IF ~error.response THEN error_message ELSE error.data.text)
    /\ Settled(r, "catch", error.response, error.data)
    /\ UNCHANGED <<href, statusData, max_virtual_knob_value,
                   current_max_dac_value, warning_message, lastPoll>>

\* catch of the poll (lines 53-60).
SetupPollCatch(r, error) ==
    /\ Alive("setup") /\ r.kind = "poll"
    /\ error_message' =
         (IF ~error.response THEN GenericFailure ELSE error.data.text)
    /\ Settled(r, "catch", error.response, error.data)
    /\ UNCHANGED <<href, statusData, max_virtual_knob_value,
                   current_max_dac_value, warning_message, lastPoll>>

\* The user edits the input bound to max_virtual_knob_value.
UserEdit ==
    /\ Alive("setup")
    /\ \E text \in TypedValues \ {max_virtual_knob_value} :
         max_virtual_knob_value' = text
    /\ UNCHANGED <<page, href, clock, fired, nextSeq, inflight, statusData,
                   current_max_dac_value, error_message, warning_message,
                   srv_max_dac_value, history, counts>>

\* submitNewSettings (lines 11-19): one POST /setup with the parsed number.
submitNewSettings ==
    /\ Alive("setup")
    /\ counts.submits < MaxSubmits
    /\ counts' = [counts EXCEPT !.submits = @ + 1]
    /\ Issued(Request("post", FormValue(max_virtual_knob_value)))
    /\ UNCHANGED <<page, href, clock, fired, statusData, setupData,
                   srv_max_dac_value, last, lastPoll>>

\* then of the POST (lines 20-22): the page navigates to "/".
PostThen(r) ==
    /\ Alive("setup") /\ r.kind = "post" /\ r.reply.st = "ok"
    /\ href' = "/"
    /\ Settled(r, "then", TRUE, r.reply.data)
    /\ UNCHANGED <<statusData, setupData, lastPoll>>

\* Faulty variant of PostCatch: the page navigates although the POST failed.
PostCatch_Navigates(r, error) ==
    /\ Alive("setup") /\ r.kind = "post"
    /\ error_message' =
         (IF ~error.response THEN GenericFailure ELSE error.data.text)
    /\ href' = "/"
    /\ Settled(r, "catch", error.response, error.data)
    /\ UNCHANGED <<statusData, max_virtual_knob_value,
                   current_max_dac_value, warning_message, lastPoll>>

\* catch of the POST (lines 23-30).
PostCatch(r, error) ==
    /\ Alive("setup") /\ r.kind = "post"
    /\ error_message' =
         (IF ~error.response THEN GenericFailure ELSE error.data.text)
    /\ Settled(r, "catch", error.response, error.data)
    /\ UNCHANGED <<href, statusData, max_virtual_knob_value,
                   current_max_dac_value, warning_message, lastPoll>>

\* ------------------------------------------------------------ specification

Next ==
    \/ Tick
    \/ \E r \in inflight : AnswerSetupStatus(r)
    \/ \E r \in inflight : AnswerPost(r)
    \/ ExternalChange
    \/ StatusPoll
    \/ \E r \in inflight, response \in StatusResponses :
         StatusPollThen(r, response)
    \/ \E r \in inflight : \E error \in ErrorsOf(r) : StatusPollCatch(r, error)
    \/ FilamentOn
    \/ \E r \in inflight, response \in FilamentResponses :
         FilamentOnThen(r, response)
    \/ \E r \in inflight : \E error \in ErrorsOf(r) : FilamentOnCatch(r, error)
    \/ FilamentOff
    \/ \E r \in inflight, response \in FilamentResponses :
         FilamentOffThen(r, response)
    \/ \E r \in inflight : \E error \in ErrorsOf(r) : FilamentOffCatch(r, error)
    \/ \E r \in inflight : LoadThen(r)
    \/ \E r \in inflight : \E error \in ErrorsOf(r) : LoadCatch(r, error)
    \/ SetupPoll
    \/ \E r \in inflight : SetupPollThen(r)
    \/ \E r \in inflight : \E error \in ErrorsOf(r) : SetupPollCatch(r, error)
    \/ UserEdit
    \/ submitNewSettings
    \/ \E r \in inflight : PostThen(r)
    \/ \E r \in inflight : \E error \in ErrorsOf(r) : PostCatch(r, error)

Spec == Init /\ [][Next]_vars

\* ------------------------------------------------------------- properties

\* The step ran a promise callback (each request is settled once, so the
\* history changes in exactly these steps).
Handled == last' # last
\* The text a catch handler is to show for the failure the history records.
FailureText(l) == IF l.response THEN l.data.text ELSE GenericFailure
\* The text the status panel is to show after the callback the history records.
ShownBy(l) ==
    IF l.outcome = "catch" THEN FailureText(l)
    ELSE IF l.kind = "status" THEN l.data.filament_status_message
    ELSE l.data.text
Filament == {"filament-on", "filament-off"}
LoadPending == \E r \in inflight : r.kind = "load"
\* The issue numbers of the requests settled so far.
Done == (1 .. nextSeq) \ {r.seq : r \in inflight}

\* C1 as stated: the callbacks of the status panel run in the order their
\* requests were issued, so the message shown stems from the most recently
\* issued request among those completed.
C1_IssueOrder == [][page = "status" => last'.seq >= last.seq]_vars

\* C1 amended: last write wins in completion order.  Whatever the order of
\* issue, the message shown by the status panel is the one of the request
\* that completed last (its body, its status message or its failure text).
C1_CompletionOrder ==
    page = "status" /\ last.kind # "none" =>
        filament_status_message = ShownBy(last)

\* A filament request overwrote the message although a request issued after
\* it had completed before.
C1_Witness ==
    /\ page = "status"
    /\ last.kind \in Filament
    /\ \E n \in Done : n > last.seq
    /\ filament_status_message = ShownBy(last)

\* C2: a successful poll of the status panel copies computer_control,
\* filament_status_message and active_users of one response in one step:
\* computer_control and active_users are both initial or both of the same
\* response, and right after the poll the message is the response's.
C2_PollAtomic ==
    page = "status" =>
        /\ \/ computer_control = TRUE /\ active_users = 0
           \/ <<computer_control, active_users>> = lastPoll
        /\ last.kind = "status" /\ last.outcome = "then" =>
              /\ computer_control = last.data.computer_control
              /\ active_users = last.data.active_users
              /\ filament_status_message = last.data.filament_status_message

\* The second request of the page was a poll that succeeded and moved both
\* fields away from their initial values.
C2_Witness ==
    /\ page = "status"
    /\ last.kind = "status" /\ last.outcome = "then" /\ last.seq > 1
    /\ computer_control = FALSE /\ active_users = MaxUsers
    /\ filament_status_message = last.data.filament_status_message

\* C3: the callbacks of filamentOn and filamentOff leave computer_control
\* and active_users alone, whether the request succeeds or fails, and on
\* success the message becomes the response body.
C3_FilamentFrame ==
    [][Handled /\ last'.kind \in Filament =>
          /\ UNCHANGED <<computer_control, active_users, setupData>>
          /\ last'.outcome = "then" =>
                filament_status_message' = last'.data.text]_vars

\* filamentOff succeeded after a poll had set both other fields.
C3_Witness ==
    /\ last.kind = "filament-off" /\ last.outcome = "then"
    /\ computer_control = FALSE /\ active_users = MaxUsers
    /\ filament_status_message \in FilamentBodies

\* C4: a failed request writes the generic text when the failure carries no
\* response and the body of the server's response otherwise, to
\* filament_status_message on the status panel and to error_message on the
\* setup panel, and changes no other field.
C4_FailureMessage ==
    [][Handled /\ last'.outcome = "catch" =>
          IF page = "status"
          THEN /\ filament_status_message' = FailureText(last')
               /\ UNCHANGED <<computer_control, active_users, setupData, href>>
          ELSE /\ error_message' = FailureText(last')
               /\ UNCHANGED <<max_virtual_knob_value, current_max_dac_value,
                              warning_message, statusData, href>>]_vars

\* A poll of the setup panel failed without a response after the page had
\* loaded the setting and the user had typed a value: both are kept.
C4_Witness ==
    /\ page = "setup"
    /\ last.kind = "poll" /\ last.outcome = "catch" /\ ~last.response
    /\ error_message = GenericFailure
    /\ current_max_dac_value = MaxDacValue
    /\ max_virtual_knob_value \in TypedValues

\* C5: a successful poll of the setup panel whose response carries a
\* max_dac_value other than current_max_dac_value sets the warning; so it
\* does after another user changed the setting the page had loaded.
C5_ChangeDetected ==
    [][/\ Handled
       /\ last'.kind = "poll" /\ last'.outcome = "then"
       /\ last'.data.max_dac_value # current_max_dac_value
       => warning_message' = ChangedWarning]_vars

\* The page loaded the setting, another user changed it, and a poll that
\* saw the new value raised the warning.
C5_Witness ==
    /\ page = "setup"
    /\ counts.external /\ ~LoadPending
    /\ max_virtual_knob_value = KnobText(current_max_dac_value, DacBits)
    /\ last.kind = "poll" /\ last.outcome = "then"
    /\ last.data.max_dac_value # current_max_dac_value
    /\ warning_message = ChangedWarning

\* C6: of all callbacks only the then of the on-load GET writes
\* max_virtual_knob_value or current_max_dac_value, and it runs at most once
\* (the one on-load request is settled once and never sent again); no poll
\* callback changes either field.
C6_ConfigWrittenOnce ==
    [][/\ (Handled /\ ~(last'.kind = "load" /\ last'.outcome = "then")) =>
             UNCHANGED <<max_virtual_knob_value, current_max_dac_value>>
       /\ current_max_dac_value' # current_max_dac_value => Handled
       /\ (Handled /\ last'.kind = "load") => LoadPending
       /\ LoadPending' => LoadPending /\ ~(Handled /\ last'.kind = "load")]_vars

\* The text typed after the on-load response is still in the form after a
\* poll callback ran.
C6_Witness ==
    /\ page = "setup" /\ ~LoadPending
    /\ current_max_dac_value = MaxDacValue
    /\ max_virtual_knob_value \in TypedValues
    /\ last.kind = "poll"

\* C7: every call of submitNewSettings sends one POST and none is sent
\* otherwise; the page navigates only in the then of a POST; the catch of a
\* POST does not navigate, writes the failure to error_message and leaves
\* the other fields alone.
C7_SubmitOnce ==
    /\ [](posted = counts.submits)
    /\ [][href' # href =>
             Handled /\ last'.kind = "post" /\ last'.outcome = "then"
                     /\ href' = "/"]_vars
    /\ [][Handled /\ last'.kind = "post" /\ last'.outcome = "catch" =>
             /\ error_message' = FailureText(last')
             /\ UNCHANGED <<href, max_virtual_knob_value,
                            current_max_dac_value, warning_message>>]_vars

\* A submitted POST was rejected by the server: the page stays and shows
\* the body.
C7_Witness ==
    /\ posted = 1 /\ href = "/setup"
    /\ last.kind = "post" /\ last.outcome = "catch" /\ last.response
    /\ error_message = "Internal Server Error"

\* C8 as stated: the warning is displayed only if another user changed the
\* server's setting while the page was open.
C8_WarningOnlyIfOthers ==
    page = "setup" /\ warning_message # "" => counts.external

\* C9: at most one poll of the status panel is outstanding, and it is the
\* one the latest run of the interval sent, so the polls are settled in the
\* order they were sent.
C9_OnePollOutstanding ==
    page = "status" =>
        /\ Cardinality({r \in inflight : r.kind = "status"}) <= 1
        /\ \A r \in inflight :
              r.kind = "status" => Ms(r.sent) = fired * StatusPollIntervalMs

\* The first poll ran into its timeout or a network error before the second
\* poll was sent, which is outstanding.
C9_Witness ==
    /\ page = "status" /\ fired = 2
    /\ \E r \in inflight : r.kind = "status"
    /\ last.kind = "status" /\ last.outcome = "catch" /\ ~last.response

====
